---- MODULE Spec2Model ----
(***************************************************************************)
(* F1 Singapore GP prediction repository: the data collection pipeline     *)
(* (ergast_data_collector.py, weather_data_collector.py,                   *)
(* run_data_collection.py) and the prediction dashboard (webapp/app.py,    *)
(* run_webapp.py) as state machines.                                       *)
(*                                                                         *)
(* Three specifications share the variables:                               *)
(*   Spec      one run of run_data_collection.main                         *)
(*   CallSpec  one direct call of a single collector with caller-chosen    *)
(*             arguments (year lists, flags)                               *)
(*   WebSpec   the dashboard: start-up, then HTTP requests                 *)
(*                                                                         *)
(* Floating point quantities are integers in thousandths (26000 = 26.0).   *)
(***************************************************************************)
EXTENDS Integers, Sequences, FiniteSets, TLC

VARIABLES
    entry,          \* the entry point that was invoked
    pc,             \* the function being executed ("done", "aborted" at the end)
    phase,          \* position inside the running collector: "fetch" |
                    \* "combine" | "writing" | "returned"
    keys,           \* the key list the running collector iterates over (years)
    i,              \* index in keys of the next key to fetch
    acc,            \* all_results / all_standings / all_schedules /
                    \* all_weather_data / singapore_results of the running collector
    data,           \* local variable data: the last make_request return value
    lastOutcome,    \* what the network did on the last request
    requestLog,     \* the running collector's calls so far: <<[key, ret]>>
    ret,            \* return value of the collector that finished last
    report,         \* last summary line a collector printed: "saved" | "no_data"
    files,          \* the output directory: file name -> who wrote it last,
                    \* or that it is open for writing
    writes,         \* file name -> number of to_csv calls on it so far
    dirAtStart,     \* the output directory as it was when the collector started
    lastWritten,    \* the table handed to the last to_csv call, with its file
    netRequests,    \* requests.get calls issued so far
    apiCalls,       \* make_request calls so far
    paced,          \* TRUE iff time.sleep(0.5) ran since the last requests.get
    raised,         \* exception that escaped to the top level, None otherwise
    use_fastf1,     \* arguments of collect_weather_data
    use_synthetic,
    rng,            \* state of numpy's global generator
    synthetic_data, \* the frame create_synthetic_weather_data returned last
    stepsCalled,    \* the steps run_data_collection.main has called so far
    summary,        \* what validate_and_summarize printed
    launch,         \* how the dashboard was started: "run_webapp" | "app"
    artifacts,      \* data/features: artifact -> "ok" | "absent" | "corrupt"
    predictionsCsv, \* rows of singapore_gp_2025_predictions.csv on disk
    webPc,          \* "boot" | "loading" | "serving" | "exited"
    exitCode,       \* exit status of the launcher once it has exited
    model_data,     \* module-level model_data of app.py
    response        \* the response to the last HTTP request

collectVars == <<entry, pc, phase, keys, i, acc, data, lastOutcome, requestLog,
                 ret, report, files, writes, dirAtStart, lastWritten,
                 netRequests, apiCalls, paced, raised,
                 use_fastf1, use_synthetic, rng, synthetic_data, stepsCalled, summary>>
webVars == <<launch, artifacts, predictionsCsv, webPc, exitCode, model_data,
             response>>
vars == <<collectVars, webVars>>

-----------------------------------------------------------------------------
(* Bounds of the model *)

\* the fixed ranges range(2008, 2025) and range(2015, 2025) are cut to their
\* first NumYears years
NumYears == 2
\* longest year list a direct caller passes
MaxYears == 3
\* most samples in one FastF1 weather frame
MaxObsRows == 2
\* most rows of the predictions table
MaxPredictions == 2

(* Program constants *)
FirstSingaporeYear == 2008
FirstStandingsYear == 2015

None == "None"
NaNStr == "NaN"
NaN == -999999

-----------------------------------------------------------------------------
(* Sequence helpers *)

Range(first, n) == [k \in 1..n |-> first + k - 1]

RECURSIVE Concat(_)
Concat(frames) ==
    IF frames = <<>> THEN <<>> ELSE Head(frames) \o Concat(Tail(frames))

SeqsUpTo(S, n) == UNION {[1..k -> S] : k \in 0..n}

YearsOf(table) == {table[k].Year : k \in 1..Len(table)}

RowsOfYear(table, y) == {k \in 1..Len(table) : table[k].Year = y}

-----------------------------------------------------------------------------
(* The output directory *)

ErgastCollectors == {"collect_singapore_gp_results", "collect_driver_standings",
                     "collect_constructor_standings", "collect_circuit_info",
                     "collect_season_schedules"}
Collectors == ErgastCollectors \cup {"collect_weather_data",
                                     "collect_singapore_fastf1"}

OutputFile(c) ==
    CASE c = "collect_singapore_gp_results" -> "singapore_gp_results_ergast_2008_2024.csv"
      [] c = "collect_driver_standings" -> "driver_standings_2015_2024.csv"
      [] c = "collect_constructor_standings" -> "constructor_standings_2015_2024.csv"
      [] c = "collect_circuit_info" -> "circuits_info.csv"
      [] c = "collect_season_schedules" -> "season_schedules_2015_2024.csv"
      [] c = "collect_weather_data" -> "singapore_weather_2008_2024.csv"
      [] c = "collect_singapore_fastf1" -> "singapore_gp_results_fastf1_2008_2024.csv"

FileNames == {OutputFile(c) : c \in Collectors}

\* A file of the directory is known by who wrote it last: nobody (it does not
\* exist), an earlier run, or a collector of this run; while to_csv runs, the
\* file is open for writing: emptied, or holding the rows written so far.  The
\* table a collector writes is kept in lastWritten while that collector is the
\* current one.
NoFile == "none"
PriorFile == "prior"
PartFile == "part"

\* df.to_csv(output_path, index=False) opens output_path itself with mode
\* "w": the file is created or emptied, then filled in place
to_csv_open(dir, c) == [dir EXCEPT ![OutputFile(c)] = PartFile]

\* df.to_csv(output_path, index=False) has returned: the file holds the frame
to_csv(dir, c) == [dir EXCEPT ![OutputFile(c)] = c]

-----------------------------------------------------------------------------
(* ErgastDataCollector.make_request *)

RequestFailures == {"ConnectionError", "Timeout", "HTTPError"}

\* requests.exceptions.RequestException and its subclasses
RequestExceptionClasses == {"RequestException", "ConnectionError", "Timeout",
                            "HTTPError", "TooManyRedirects"}

HandlesConnectionErrorOnly(exc) == exc = "ConnectionError"

\* except requests.exceptions.RequestException as e
HandlesRequestException(exc) == exc \in RequestExceptionClasses

TruthyAlways(list) == TRUE

\* "if all_results:", "if all_standings:", ...: a list is true when it is not empty
Truthy(list) == list # <<>>

\* Python values: None, a parsed JSON object, a DataFrame, a dict
NoneValue == [kind |-> "None", rows |-> <<>>]
Json(k, list) == [kind |-> k, rows |-> list]
DataFrame(rows) == [kind |-> "DataFrame", rows |-> rows]

\* One call: outcome is what the network does ("ok" or the exception that
\* requests.get / raise_for_status raises), body the JSON of a 2xx answer.
\* requests counts the requests.get calls, slept says whether time.sleep ran,
\* raised is the exception the call lets through to its caller.
make_request(outcome, body) ==
    IF outcome = "ok"
    THEN [ret |-> body, requests |-> 1, slept |-> TRUE, raised |-> None]
    ELSE IF HandlesRequestException(outcome)
         THEN [ret |-> NoneValue, requests |-> 1, slept |-> FALSE, raised |-> None]
         ELSE [ret |-> NoneValue, requests |-> 1, slept |-> FALSE, raised |-> outcome]

-----------------------------------------------------------------------------
(* Ergast response bodies and their flattening *)

\* MRData.RaceTable.Races of <year>/Singapore/results: races, each with an
\* optional 'Results' list (hasResults: the key is there); a result names the
\* optional keys it carries
ResultFull == [position |-> 1,
               optional |-> {"permanentNumber", "Time", "FastestLap",
                             "FastestLap.Time", "FastestLap.AverageSpeed"}]
ResultBare == [position |-> 2, optional |-> {}]
ResultNoLapTime == [position |-> 3, optional |-> {"Time", "FastestLap"}]
ResultsBodies == {<<>>,
                  <<[round |-> 15, hasResults |-> TRUE,
                     Results |-> <<ResultFull, ResultBare>>]>>,
                  <<[round |-> 15, hasResults |-> TRUE,
                     Results |-> <<ResultNoLapTime>>]>>,
                  <<[round |-> 15, hasResults |-> FALSE, Results |-> <<>>]>>}

FlattenResult(year, race, result) ==
    [Year |-> year, Race |-> "Singapore", Round |-> race.round,
     Position |-> result.position,
     DriverNumber |-> IF "permanentNumber" \in result.optional
                      THEN "permanentNumber" ELSE None,
     Time |-> IF "Time" \in result.optional THEN "time" ELSE None,
     FastestLapRank |-> IF "FastestLap" \in result.optional THEN "rank" ELSE None,
     FastestLapTime |-> IF "FastestLap" \in result.optional
                           /\ "FastestLap.Time" \in result.optional
                        THEN "time" ELSE None,
     FastestLapAvgSpeed |-> IF "FastestLap" \in result.optional
                               /\ "FastestLap.AverageSpeed" \in result.optional
                            THEN "speed" ELSE None]

FlattenRaceSkipsIncomplete(year, race) ==
    IF ~race.hasResults THEN <<>>
    ELSE LET Complete(result) == result.optional = ResultFull.optional
             kept == SelectSeq(race.Results, Complete)
         IN [k \in 1..Len(kept) |-> FlattenResult(year, race, kept[k])]

FlattenRace(year, race) ==
    IF ~race.hasResults THEN <<>>
    ELSE [k \in 1..Len(race.Results) |-> FlattenResult(year, race, race.Results[k])]

FlattenResults(year, races) ==
    Concat([k \in 1..Len(races) |-> FlattenRace(year, races[k])])

\* MRData.StandingsTable.StandingsLists of <year>/driverStandings
StandingsBodies(year) ==
    {<<>>,
     <<[season |-> year, standings |-> <<[position |-> 1, Constructors |-> <<"red_bull">>]>>]>>,
     <<[season |-> year, standings |-> <<[position |-> 1, Constructors |-> <<>>]>>]>>}

FlattenDriverStandings(lists) ==
    LET F(l) == [k \in 1..Len(l.standings) |->
                    [Year |-> l.season, Position |-> l.standings[k].position,
                     ConstructorId |-> IF l.standings[k].Constructors # <<>>
                                       THEN l.standings[k].Constructors[1]
                                       ELSE None]]
    IN Concat([j \in 1..Len(lists) |-> F(lists[j])])

\* MRData.StandingsTable.StandingsLists of <year>/constructorStandings
ConstructorBodies(year) ==
    {<<>>,
     <<[season |-> year, standings |-> <<[position |-> 1, Constructor |-> "red_bull"]>>]>>,
     <<[season |-> year, standings |-> <<[position |-> 1, Constructor |-> "ferrari"],
                                         [position |-> 2, Constructor |-> "red_bull"]>>]>>}

FlattenConstructorStandings(lists) ==
    LET F(l) == [k \in 1..Len(l.standings) |->
                    [Year |-> l.season, Position |-> l.standings[k].position,
                     ConstructorId |-> l.standings[k].Constructor]]
    IN Concat([j \in 1..Len(lists) |-> F(lists[j])])

\* MRData.RaceTable.Races of <year>: a race may lack the key 'time'
ScheduleBodies == {<<>>,
                   <<[round |-> 1, optional |-> {"time"}]>>,
                   <<[round |-> 1, optional |-> {}]>>}

FlattenSchedule(year, races) ==
    [k \in 1..Len(races) |->
        [Year |-> year, Round |-> races[k].round,
         Time |-> IF "time" \in races[k].optional THEN "time" ELSE None]]

\* MRData.CircuitTable.Circuits of circuits
CircuitBodies == {<<>>, <<[circuitId |-> "marina_bay"]>>}

FlattenCircuits(circuits) ==
    [k \in 1..Len(circuits) |-> [CircuitId |-> circuits[k].circuitId]]

Lists(c, year) ==
    CASE c = "collect_singapore_gp_results" -> ResultsBodies
      [] c = "collect_driver_standings" -> StandingsBodies(year)
      [] c = "collect_constructor_standings" -> ConstructorBodies(year)
      [] c = "collect_season_schedules" -> ScheduleBodies
      [] c = "collect_circuit_info" -> CircuitBodies

\* the JSON objects a 2xx answer can carry: without 'MRData', with 'MRData'
\* and every key the flattening subscripts, or with 'MRData' and one of those
\* keys absent
Bodies(c, year) ==
    {Json("NoMRData", <<>>), Json("MRDataKeyMissing", <<>>)}
        \cup {Json("MRData", l) : l \in Lists(c, year)}

\* if data and 'MRData' in data
HasMRData(d) == d.kind \in {"MRData", "MRDataKeyMissing"}

\* data['MRData']['RaceTable'], result['Grid'], standing['Driver']['code'], ...:
\* a subscript of an absent key raises KeyError, and no collector catches it
Subscripts(d) == IF d.kind = "MRDataKeyMissing" THEN "KeyError" ELSE None

\* the records one response contributes: the body of "if data and 'MRData' in data"
Flatten(c, year, d) ==
    IF d.kind # "MRData" THEN <<>>
    ELSE CASE c = "collect_singapore_gp_results" -> FlattenResults(year, d.rows)
           [] c = "collect_driver_standings" -> FlattenDriverStandings(d.rows)
           [] c = "collect_constructor_standings" -> FlattenConstructorStandings(d.rows)
           [] c = "collect_season_schedules" -> FlattenSchedule(year, d.rows)
           [] c = "collect_circuit_info" -> FlattenCircuits(d.rows)

-----------------------------------------------------------------------------
(* Calls and returns *)

\* range(2008, 2025), range(2015, 2025), cut to NumYears years
SingaporeYears == Range(FirstSingaporeYear, NumYears)
StandingsYears == Range(FirstStandingsYear, NumYears)
\* collect_circuit_info makes one request, with no year
CircuitKey == <<0>>

\* the key list a collector uses when the caller passes none (years=None)
DefaultKeys(c) ==
    CASE c \in {"collect_singapore_gp_results", "collect_weather_data",
                "collect_singapore_fastf1"} -> SingaporeYears
      [] c \in {"collect_driver_standings", "collect_constructor_standings",
                "collect_season_schedules"} -> StandingsYears
      [] c = "collect_circuit_info" -> CircuitKey

NothingWritten == [file |-> None, table |-> <<>>]

\* a collector is called: its locals are fresh, and what the model remembers
\* of the call before (its result, its last request, its last line) is cleared
Enter(c, ks) ==
    /\ pc' = c
    /\ phase' = "fetch"
    /\ keys' = ks
    /\ i' = 1
    /\ acc' = <<>>
    /\ data' = NoneValue
    /\ requestLog' = <<>>
    /\ dirAtStart' = files
    /\ ret' = NoneValue
    /\ report' = None
    /\ lastOutcome' = None
    /\ lastWritten' = NothingWritten

\* a collector returns v to its caller
Return(v) ==
    /\ phase' = "returned"
    /\ ret' = v

netVars == <<netRequests, apiCalls, paced, raised>>
weatherArgs == <<use_fastf1, use_synthetic>>
diskVars == <<files, writes>>

\* to_csv returns: the file is complete, the collector prints "Saved ..." and
\* returns the frame it wrote
Written(c) ==
    /\ pc = c
    /\ phase = "writing"
    /\ files' = to_csv(files, c)
    /\ report' = "saved"
    /\ Return(DataFrame(lastWritten.table))
    /\ UNCHANGED <<entry, pc, keys, i, acc, data, requestLog, dirAtStart,
                   lastOutcome, lastWritten, writes, netVars, weatherArgs, rng,
                   synthetic_data, stepsCalled, summary, webVars>>

-----------------------------------------------------------------------------
(* ErgastDataCollector: the collectors that loop over years *)

\* One iteration of "for year in ...": make_request, then flatten into the
\* accumulator when the answer is there and carries 'MRData'.
ErgastFetch(c) ==
    /\ pc = c
    /\ phase = "fetch"
    /\ i <= Len(keys)
    /\ \E outcome \in {"ok"} \cup RequestFailures, body \in Bodies(c, keys[i]) :
         LET r == make_request(outcome, body) IN
         /\ outcome # "ok" => body = Json("NoMRData", <<>>)
         /\ lastOutcome' = outcome
         /\ netRequests' = netRequests + r.requests
         /\ apiCalls' = apiCalls + 1
         /\ paced' = r.slept
         /\ IF r.raised # None
            THEN /\ raised' = r.raised
                 /\ pc' = "aborted"
                 /\ UNCHANGED <<i, acc, data, requestLog>>
            ELSE /\ data' = r.ret
                 /\ requestLog' = Append(requestLog, [key |-> keys[i], ret |-> r.ret])
                 /\ IF HasMRData(r.ret) /\ Subscripts(r.ret) # None
                    THEN /\ raised' = Subscripts(r.ret)
                         /\ pc' = "aborted"
                         /\ UNCHANGED <<i, acc>>
                    ELSE /\ acc' = acc \o Flatten(c, keys[i], r.ret)
                         /\ i' = i + 1
                         /\ UNCHANGED <<raised, pc>>
    /\ UNCHANGED <<entry, phase, keys, ret, report, diskVars, lastWritten,
                   dirAtStart, weatherArgs, rng, synthetic_data, stepsCalled,
                   summary, webVars>>

\* After the loop: "if all_results:" writes the table and returns it, else
\* the collector prints that nothing was collected and returns None.
ErgastSave(c) ==
    /\ pc = c
    /\ phase = "fetch"
    /\ i > Len(keys)
    /\ IF Truthy(acc)
       THEN /\ files' = to_csv_open(files, c)
            /\ writes' = [writes EXCEPT ![OutputFile(c)] = @ + 1]
            /\ lastWritten' = [file |-> OutputFile(c), table |-> acc]
            /\ phase' = "writing"
            /\ UNCHANGED <<ret, report>>
       ELSE /\ report' = "no_data"
            /\ Return(NoneValue)
            /\ UNCHANGED <<diskVars, lastWritten>>
    /\ UNCHANGED <<entry, pc, keys, i, acc, data, requestLog, dirAtStart,
                   lastOutcome, netVars, weatherArgs, rng, synthetic_data,
                   stepsCalled, summary, webVars>>

collect_singapore_gp_results ==
    \/ ErgastFetch("collect_singapore_gp_results")
    \/ ErgastSave("collect_singapore_gp_results")
    \/ Written("collect_singapore_gp_results")

collect_driver_standings ==
    \/ ErgastFetch("collect_driver_standings")
    \/ ErgastSave("collect_driver_standings")
    \/ Written("collect_driver_standings")

collect_constructor_standings ==
    \/ ErgastFetch("collect_constructor_standings")
    \/ ErgastSave("collect_constructor_standings")
    \/ Written("collect_constructor_standings")

collect_season_schedules ==
    \/ ErgastFetch("collect_season_schedules")
    \/ ErgastSave("collect_season_schedules")
    \/ Written("collect_season_schedules")

-----------------------------------------------------------------------------
(* ErgastDataCollector.collect_circuit_info *)

\* data = self.make_request("circuits")
CircuitFetch ==
    /\ pc = "collect_circuit_info"
    /\ phase = "fetch"
    /\ i <= Len(keys)
    /\ \E outcome \in {"ok"} \cup RequestFailures,
          body \in Bodies("collect_circuit_info", keys[i]) :
         LET r == make_request(outcome, body) IN
         /\ outcome # "ok" => body = Json("NoMRData", <<>>)
         /\ lastOutcome' = outcome
         /\ netRequests' = netRequests + r.requests
         /\ apiCalls' = apiCalls + 1
         /\ paced' = r.slept
         /\ IF r.raised # None
            THEN /\ raised' = r.raised
                 /\ pc' = "aborted"
                 /\ UNCHANGED <<i, acc, data, requestLog>>
            ELSE /\ data' = r.ret
                 /\ requestLog' = Append(requestLog, [key |-> keys[i], ret |-> r.ret])
                 /\ IF HasMRData(r.ret) /\ Subscripts(r.ret) # None
                    THEN /\ raised' = Subscripts(r.ret)
                         /\ pc' = "aborted"
                         /\ UNCHANGED <<i, acc>>
                    ELSE /\ acc' = Flatten("collect_circuit_info", keys[i], r.ret)
                         /\ i' = i + 1
                         /\ UNCHANGED <<raised, pc>>
    /\ UNCHANGED <<entry, phase, keys, ret, report, diskVars, lastWritten,
                   dirAtStart, weatherArgs, rng, synthetic_data, stepsCalled,
                   summary, webVars>>

\* "if data and 'MRData' in data:" builds the frame from circuit_data and
\* writes it, whatever the number of circuits
CircuitSave ==
    /\ pc = "collect_circuit_info"
    /\ phase = "fetch"
    /\ i > Len(keys)
    /\ IF HasMRData(data)
       THEN /\ files' = to_csv_open(files, "collect_circuit_info")
            /\ writes' = [writes EXCEPT ![OutputFile("collect_circuit_info")] = @ + 1]
            /\ lastWritten' = [file |-> OutputFile("collect_circuit_info"),
                               table |-> acc]
            /\ phase' = "writing"
            /\ UNCHANGED <<ret, report>>
       ELSE /\ report' = "no_data"
            /\ Return(NoneValue)
            /\ UNCHANGED <<diskVars, lastWritten>>
    /\ UNCHANGED <<entry, pc, keys, i, acc, data, requestLog, dirAtStart,
                   lastOutcome, netVars, weatherArgs, rng, synthetic_data,
                   stepsCalled, summary, webVars>>

collect_circuit_info ==
    CircuitFetch \/ CircuitSave \/ Written("collect_circuit_info")

-----------------------------------------------------------------------------
(* run_data_collection.collect_singapore_fastf1 *)

\* what fastf1.get_session(...).load() can raise, among others
FastF1Exceptions == {"ConnectionError", "SessionNotAvailableError", "KeyError"}

HandlesEmptyDataErrorOnly(exc) == exc = "EmptyDataError"

\* except Exception as e
HandlesException(exc) == TRUE

\* session.results of one year: n rows
ResultsFrame(year, n) ==
    [k \in 1..n |-> [Year |-> year, Race |-> "Singapore", Position |-> k]]

\* One iteration of "for year in range(2008, 2025)": a loaded session adds
\* its results frame, any exception is printed and the year skipped.
FastF1Fetch ==
    /\ pc = "collect_singapore_fastf1"
    /\ phase = "fetch"
    /\ i <= Len(keys)
    /\ \E outcome \in {"ok"} \cup FastF1Exceptions, n \in 0..1 :
         /\ outcome # "ok" => n = 0
         /\ lastOutcome' = outcome
         /\ IF outcome # "ok" /\ ~HandlesException(outcome)
            THEN /\ raised' = outcome
                 /\ pc' = "aborted"
                 /\ UNCHANGED <<i, acc, requestLog>>
            ELSE /\ acc' = IF outcome = "ok"
                           THEN Append(acc, ResultsFrame(keys[i], n))
                           ELSE acc
                 /\ requestLog' = Append(requestLog,
                                         [key |-> keys[i], ok |-> outcome = "ok"])
                 /\ i' = i + 1
                 /\ UNCHANGED <<raised, pc>>
    /\ UNCHANGED <<entry, phase, keys, data, ret, report, diskVars, lastWritten,
                   dirAtStart, netRequests, apiCalls, paced, weatherArgs, rng,
                   synthetic_data, stepsCalled, summary, webVars>>

\* "if singapore_results:" concatenates the frames, writes and returns them
FastF1Save ==
    /\ pc = "collect_singapore_fastf1"
    /\ phase = "fetch"
    /\ i > Len(keys)
    /\ IF Truthy(acc)
       THEN LET all_results == Concat(acc) IN
            /\ files' = to_csv_open(files, "collect_singapore_fastf1")
            /\ writes' = [writes EXCEPT
                            ![OutputFile("collect_singapore_fastf1")] = @ + 1]
            /\ lastWritten' = [file |-> OutputFile("collect_singapore_fastf1"),
                               table |-> all_results]
            /\ phase' = "writing"
            /\ UNCHANGED <<ret, report>>
       ELSE /\ Return(NoneValue)
            /\ UNCHANGED <<diskVars, lastWritten, report>>
    /\ UNCHANGED <<entry, pc, keys, i, acc, data, requestLog, dirAtStart,
                   lastOutcome, netVars, weatherArgs, rng, synthetic_data,
                   stepsCalled, summary, webVars>>

collect_singapore_fastf1 ==
    FastF1Fetch \/ FastF1Save \/ Written("collect_singapore_fastf1")

-----------------------------------------------------------------------------
(* numpy's global generator, abstracted: a state in 0..RngMod-1, stepped    *)
(* once by every draw; the variate drawn is a quantile picked by the state. *)

RngMod == 8
RngStates == 0..(RngMod - 1)

\* np.random.seed(year)
Seed(year) == year % RngMod

\* the state after one draw
Advance(g) == (5 * g + 3) % RngMod

\* values a standard normal and a unit exponential draw can give, thousandths,
\* by generator state.  They reach both clamps of the humidity (59.0, 101.0),
\* the clamp of the wind speed (26.4) and values that rounding to one decimal
\* moves onto a threshold (humidity 85.03, precipitation 10.03).
ZTable == <<-1200, -2100, -600, -200, 200, 2100, 503, 600>>
ETable == <<30, 130, 290, 470, 690, 980, 2006, 3300>>

\* np.random.normal(mu, sigma), np.random.exponential(scale),
\* np.random.uniform(lo, hi) as read off the state g the draw leaves
Normal(mu, sigma, g) == mu * 1000 + sigma * ZTable[g + 1]
Exponential(scale, g) == scale * ETable[g + 1]
Uniform(lo, hi, g) == lo * 1000 + ((hi - lo) * 1000 * (2 * g + 1)) \div (2 * RngMod)

\* round(x, 1) and round(x, 0) on thousandths: to the nearest multiple of
\* unit, ties to the even multiple
Round(x, unit) ==
    LET q == x \div unit
        r == x % unit
    IN IF 2 * r < unit THEN q * unit
       ELSE IF 2 * r > unit THEN (q + 1) * unit
       ELSE IF q % 2 = 0 THEN q * unit ELSE (q + 1) * unit

Max(a, b) == IF a >= b THEN a ELSE b
Min(a, b) == IF a <= b THEN a ELSE b

-----------------------------------------------------------------------------
(* WeatherDataCollector.create_synthetic_weather_data *)

\* the branch "if precipitation > 10 ... elif humidity > 85 ... else"
Condition(precipitation, humidity) ==
    IF precipitation > 10000 THEN "Rain"
    ELSE IF precipitation > 2000 THEN "Light Rain"
    ELSE IF humidity > 85000 THEN "Humid"
    ELSE "Clear"

SeedSkipped(year, g) == g

\* np.random.seed(year) at the top of the loop body: the state the draws of
\* this year start from, given the global state g before it
SeedFor(year, g) == Seed(year)

\* One iteration of "for year in years" from global state g: the record, and
\* the global state the seven draws leave behind.
SyntheticRecord(year, g) ==
    LET g0 == SeedFor(year, g)
        g1 == Advance(g0)
        g2 == Advance(g1)
        g3 == Advance(g2)
        g4 == Advance(g3)
        g5 == Advance(g4)
        g6 == Advance(g5)
        g7 == Advance(g6)
        temp_min == Normal(26, 2, g1)
        temp_max == Normal(31, 2, g2)
        temp_avg == (temp_min + temp_max) \div 2
        humidity == Max(60000, Min(95000, Normal(80, 10, g3)))
        precipitation == Exponential(5, g4)
        wind_speed == Min(25000, Exponential(8, g5))
        wind_direction == Uniform(0, 360, g6)
        pressure == Normal(1013, 10, g7)
    IN [rng |-> g7,
        record |->
          [Year |-> year, Race |-> "Singapore",
           Date |-> [year |-> year, day |-> "09-22"],
           Time |-> NaN, AirTemp |-> NaN,
           Temperature_Min_C |-> Round(temp_min, 100),
           Temperature_Max_C |-> Round(temp_max, 100),
           Temperature_Avg_C |-> Round(temp_avg, 100),
           Humidity_Percent |-> Round(humidity, 100),
           Precipitation_mm |-> Round(precipitation, 100),
           Wind_Speed_kmh |-> Round(wind_speed, 100),
           Wind_Direction_deg |-> Round(wind_direction, 1000),
           Pressure_hPa |-> Round(pressure, 100),
           Weather_Condition |-> Condition(precipitation, humidity),
           Data_Source |-> "Synthetic"]]

\* the loop over years[k..], threading the global generator state
RECURSIVE SyntheticLoop(_, _, _)
SyntheticLoop(years, k, g) ==
    IF k > Len(years) THEN [rng |-> g, frame |-> <<>>]
    ELSE LET one == SyntheticRecord(years[k], g)
             rest == SyntheticLoop(years, k + 1, one.rng)
         IN [rng |-> rest.rng, frame |-> <<one.record>> \o rest.frame]

SyntheticFromSecondYear(years, g) == SyntheticLoop(years, 2, g)

\* the returned frame has one record per entry of years, in order
create_synthetic_weather_data(years, g) == SyntheticLoop(years, 1, g)

-----------------------------------------------------------------------------
(* WeatherDataCollector.get_weather_from_fastf1 *)

\* session.weather_data of a loaded session with n samples, after the
\* columns Year, Race and Date are added
ObservedFrame(year, n) ==
    [k \in 1..n |->
        [Year |-> year, Race |-> "Singapore",
         Date |-> [year |-> year, day |-> "session.date"],
         Time |-> k, AirTemp |-> 30000 + k,
         Temperature_Min_C |-> NaN, Temperature_Max_C |-> NaN,
         Temperature_Avg_C |-> NaN, Humidity_Percent |-> NaN,
         Precipitation_mm |-> NaN, Wind_Speed_kmh |-> NaN,
         Wind_Direction_deg |-> NaN, Pressure_hPa |-> NaN,
         Weather_Condition |-> NaNStr, Data_Source |-> NaNStr]]

\* outcome "ok": the session loads with n weather samples (n = 0: none or an
\* empty frame); any other outcome is the exception raised, caught here
get_weather_from_fastf1(year, outcome, n) ==
    IF outcome = "ok" /\ n > 0 THEN DataFrame(ObservedFrame(year, n))
    ELSE NoneValue

-----------------------------------------------------------------------------
(* WeatherDataCollector.collect_weather_data *)

KeepAllRows(table) == table

RECURSIVE KeepFirst(_, _)
KeepFirst(table, seen) ==
    IF table = <<>> THEN <<>>
    ELSE IF Head(table).Year \in seen THEN KeepFirst(Tail(table), seen)
    ELSE <<Head(table)>> \o KeepFirst(Tail(table), seen \cup {Head(table).Year})

RECURSIVE KeepLast(_)
KeepLast(table) ==
    IF table = <<>> THEN <<>>
    ELSE IF Head(table).Year \in YearsOf(Tail(table)) THEN KeepLast(Tail(table))
    ELSE <<Head(table)>> \o KeepLast(Tail(table))

\* combined_weather.drop_duplicates(subset=['Year'], keep='first')
drop_duplicates(table) == KeepFirst(table, {})

SynthesisAtHalfToo(synth, nFrames, nYears) == synth /\ 2 * nFrames <= nYears

\* use_synthetic and len(all_weather_data) < len(years) * 0.5
SynthesisNeeded(synth, nFrames, nYears) == synth /\ 2 * nFrames < nYears

\* One iteration of "for year in years" under "if use_fastf1"
WeatherFetch ==
    /\ pc = "collect_weather_data"
    /\ phase = "fetch"
    /\ use_fastf1
    /\ i <= Len(keys)
    /\ \E outcome \in {"ok"} \cup FastF1Exceptions, n \in 0..MaxObsRows :
         LET weather_df == get_weather_from_fastf1(keys[i], outcome, n) IN
         /\ outcome # "ok" => n = 0
         /\ lastOutcome' = outcome
         /\ acc' = IF weather_df # NoneValue THEN Append(acc, weather_df.rows)
                   ELSE acc
         /\ requestLog' = Append(requestLog,
                                 [key |-> keys[i], ok |-> weather_df # NoneValue])
    /\ i' = i + 1
    /\ UNCHANGED <<entry, pc, phase, keys, data, ret, report, diskVars,
                   lastWritten, dirAtStart, netRequests, apiCalls, paced, raised,
                   weatherArgs, rng, synthetic_data, stepsCalled, summary, webVars>>

\* After the FastF1 pass: with too little coverage the synthetic frame for
\* all the years is appended to all_weather_data
WeatherSynthesize ==
    /\ pc = "collect_weather_data"
    /\ phase = "fetch"
    /\ ~use_fastf1 \/ i > Len(keys)
    /\ IF SynthesisNeeded(use_synthetic, Len(acc), Len(keys))
       THEN LET made == create_synthetic_weather_data(keys, rng) IN
            /\ acc' = Append(acc, made.frame)
            /\ rng' = made.rng
            /\ synthetic_data' = made.frame
       ELSE UNCHANGED <<acc, rng, synthetic_data>>
    /\ phase' = "combine"
    /\ UNCHANGED <<entry, pc, keys, i, data, requestLog, ret, report, diskVars,
                   lastWritten, dirAtStart, lastOutcome, netVars, weatherArgs,
                   stepsCalled, summary, webVars>>

\* "if all_weather_data:" concatenates, removes duplicate years, writes the
\* table and returns it; else None
WeatherCombine ==
    /\ pc = "collect_weather_data"
    /\ phase = "combine"
    /\ IF Truthy(acc)
       THEN LET combined_weather == drop_duplicates(Concat(acc)) IN
            /\ files' = to_csv_open(files, "collect_weather_data")
            /\ writes' = [writes EXCEPT
                            ![OutputFile("collect_weather_data")] = @ + 1]
            /\ lastWritten' = [file |-> OutputFile("collect_weather_data"),
                               table |-> combined_weather]
            /\ phase' = "writing"
            /\ UNCHANGED <<ret, report>>
       ELSE /\ report' = "no_data"
            /\ Return(NoneValue)
            /\ UNCHANGED <<diskVars, lastWritten>>
    /\ UNCHANGED <<entry, pc, keys, i, acc, data, requestLog, dirAtStart,
                   lastOutcome, netVars, weatherArgs, rng, synthetic_data,
                   stepsCalled, summary, webVars>>

collect_weather_data ==
    \/ WeatherFetch
    \/ WeatherSynthesize
    \/ WeatherCombine
    \/ Written("collect_weather_data")

-----------------------------------------------------------------------------
(* run_data_collection.validate_and_summarize *)

Existing(dir) == {f \in FileNames : dir[f] # NoFile}

key_files == {"singapore_gp_results_ergast_2008_2024.csv",
              "driver_standings_2015_2024.csv",
              "constructor_standings_2015_2024.csv",
              "singapore_weather_2008_2024.csv"}

NoSummary == [printed |-> FALSE, data_files |-> 0, errors |-> {},
              counted |-> {}, missing |-> {}]

\* what pd.read_csv and file.stat() raise on a file that cannot be read
ReadErrors == {"EmptyDataError", "PermissionError"}

\* Lists the csv files of the directory, reads each with pd.read_csv
\* (unreadable: those it raises exc on, caught per file) to print its record
\* count, and reports which key files exist.  Nothing is written.
validate_and_summarize ==
    /\ pc = "validate_and_summarize"
    /\ phase = "fetch"
    /\ \E unreadable \in SUBSET Existing(files) : \E exc \in ReadErrors :
         IF unreadable # {} /\ ~HandlesException(exc)
         THEN /\ raised' = exc
              /\ pc' = "aborted"
              /\ UNCHANGED <<summary, phase, ret, netRequests, apiCalls, paced>>
         ELSE /\ summary' = [printed |-> TRUE,
                             data_files |-> Cardinality(Existing(files)),
                             errors |-> unreadable,
                             counted |-> Existing(files) \ unreadable,
                             missing |-> key_files \ Existing(files)]
              /\ Return(NoneValue)
              /\ UNCHANGED <<pc, netVars>>
    /\ UNCHANGED <<entry, keys, i, acc, data, requestLog, report, diskVars,
                   lastWritten, dirAtStart, lastOutcome, weatherArgs,
                   rng, synthetic_data, stepsCalled, webVars>>

-----------------------------------------------------------------------------
(* ErgastDataCollector.collect_all_data and run_data_collection.main *)

ErgastOrder == <<"collect_singapore_gp_results", "collect_driver_standings",
                 "collect_constructor_standings", "collect_circuit_info",
                 "collect_season_schedules">>

MainOrder == <<"collect_all_data", "collect_weather_data",
               "collect_singapore_fastf1", "validate_and_summarize">>

IndexOf(seq, x) == CHOOSE k \in 1..Len(seq) : seq[k] = x

\* collect_all_data: when one collector has returned, call the next with its
\* default years; after the last, return the dict of the five results
collect_all_data ==
    /\ entry = "main"
    /\ pc \in ErgastCollectors
    /\ phase = "returned"
    /\ LET k == IndexOf(ErgastOrder, pc) IN
       IF k < Len(ErgastOrder)
       THEN Enter(ErgastOrder[k + 1], DefaultKeys(ErgastOrder[k + 1]))
       ELSE /\ pc' = "collect_all_data"
            /\ ret' = [kind |-> "dict", rows |-> <<>>]
            /\ UNCHANGED <<phase, keys, i, acc, data, requestLog, dirAtStart,
                           report, lastOutcome, lastWritten>>
    /\ UNCHANGED <<entry, diskVars, netVars, weatherArgs, rng,
                   synthetic_data, stepsCalled, summary, webVars>>

\* main: mkdir, enable the FastF1 cache, then the four steps one after the
\* other, each called when the one before has returned
main ==
    /\ entry = "main"
    /\ \/ /\ pc = "main"
          /\ Enter("collect_singapore_gp_results",
                   DefaultKeys("collect_singapore_gp_results"))
          /\ stepsCalled' = Append(stepsCalled, "collect_all_data")
       \/ /\ pc = "collect_all_data"
          /\ phase = "returned"
          /\ Enter("collect_weather_data", DefaultKeys("collect_weather_data"))
          /\ stepsCalled' = Append(stepsCalled, "collect_weather_data")
       \/ /\ pc = "collect_weather_data"
          /\ phase = "returned"
          /\ Enter("collect_singapore_fastf1",
                   DefaultKeys("collect_singapore_fastf1"))
          /\ stepsCalled' = Append(stepsCalled, "collect_singapore_fastf1")
       \/ /\ pc = "collect_singapore_fastf1"
          /\ phase = "returned"
          /\ Enter("validate_and_summarize", <<>>)
          /\ stepsCalled' = Append(stepsCalled, "validate_and_summarize")
       \/ /\ pc = "validate_and_summarize"
          /\ phase = "returned"
          /\ pc' = "done"
          /\ UNCHANGED <<phase, keys, i, acc, data, requestLog, dirAtStart,
                         ret, report, lastOutcome, lastWritten, stepsCalled>>
    /\ UNCHANGED <<entry, diskVars, netVars, weatherArgs, rng,
                   synthetic_data, summary, webVars>>

-----------------------------------------------------------------------------
(* run_webapp.py: check_requirements and main *)

required_files == {"best_model.pkl", "feature_scaler.pkl", "label_encoders.pkl",
                   "singapore_gp_2025_predictions.csv", "feature_importance.csv",
                   "prediction_summary.csv"}

\* check_requirements: the list of missing files is empty
check_requirements(arts) == \A f \in required_files : arts[f] # "absent"

\* main: sys.exit(1) when a required file is missing, else chdir to webapp
\* and os.system('python app.py')
run_webapp ==
    /\ webPc = "boot"
    /\ launch = "run_webapp"
    /\ IF check_requirements(artifacts)
       THEN /\ webPc' = "loading"
            /\ UNCHANGED exitCode
       ELSE /\ webPc' = "exited"
            /\ exitCode' = 1
    /\ UNCHANGED <<launch, artifacts, predictionsCsv, model_data, response,
                   collectVars>>

-----------------------------------------------------------------------------
(* webapp/app.py *)

LoadsModelOnly(arts) == arts["best_model.pkl"] = "ok"

\* the body of the try block runs to its end: joblib.load and pd.read_csv
\* succeed on all six files and the summary has a first row
LoadsAll(arts) == \A f \in required_files : arts[f] = "ok"

\* load_model_and_data, run once when the module is imported: the dict of
\* the loaded artifacts, or None when anything in the try block raised
load_model_and_data ==
    /\ webPc = "loading"
    /\ model_data' = IF LoadsAll(artifacts)
                     THEN [kind |-> "dict", rows |-> predictionsCsv]
                     ELSE NoneValue
    /\ webPc' = "serving"
    /\ UNCHANGED <<launch, artifacts, predictionsCsv, exitCode, response,
                   collectVars>>

\* characters of driver codes, and str.upper() on them
LowerCase == <<"a", "e", "h", "m", "r", "v">>
UpperCase == <<"A", "E", "H", "M", "R", "V">>

UpperChar(ch) ==
    IF \E k \in 1..Len(LowerCase) : LowerCase[k] = ch
    THEN UpperCase[CHOOSE k \in 1..Len(LowerCase) : LowerCase[k] = ch]
    ELSE ch

upper(str) == [k \in 1..Len(str) |-> UpperChar(str[k])]

NoError == [msg |-> None, arg |-> <<>>]
NoResponse == [route |-> None, arg |-> <<>>, status |-> 0, view |-> None,
               error |-> NoError, payload |-> <<>>]

Respond(route, arg, status, view, error, payload) ==
    [route |-> route, arg |-> arg, status |-> status, view |-> view,
     error |-> error, payload |-> payload]

ModelDataNotFound ==
    [msg |-> "Model data not found. Please run the feature engineering notebook first.",
     arg |-> <<>>]

\* what no handler assigns: the process, the files and the collection side
requestFrame == <<launch, artifacts, predictionsCsv, webPc, exitCode, collectVars>>

handlerFrame == <<requestFrame, model_data>>

IndexedInPlace(md, selection) == [md EXCEPT !.rows = selection]

\* model_data['predictions'][mask]: boolean indexing hands back a new frame,
\* the dict and the table it holds are what they were
Indexed(md, selection) == md

\* the rows of a table, in order, whose column Driver equals code
SelectDriver(table, code) ==
    LET Matches(row) == row.Driver = code IN SelectSeq(table, Matches)

\* GET /
index ==
    /\ webPc = "serving"
    /\ response' =
         IF model_data = NoneValue
         THEN Respond("/", <<>>, 200, "error.html", ModelDataNotFound, <<>>)
         ELSE Respond("/", <<>>, 200, "index.html", NoError,
                      SubSeq(model_data.rows, 1, Min(10, Len(model_data.rows))))
    /\ UNCHANGED handlerFrame

\* GET /api/predictions
api_predictions ==
    /\ webPc = "serving"
    /\ response' =
         IF model_data = NoneValue
         THEN Respond("/api/predictions", <<>>, 500, "json",
                      [msg |-> "Model data not found", arg |-> <<>>], <<>>)
         ELSE Respond("/api/predictions", <<>>, 200, "json", NoError,
                      model_data.rows)
    /\ UNCHANGED handlerFrame

\* GET /api/feature-importance
api_feature_importance ==
    /\ webPc = "serving"
    /\ response' =
         IF model_data = NoneValue
         THEN Respond("/api/feature-importance", <<>>, 500, "json",
                      [msg |-> "Model data not found", arg |-> <<>>], <<>>)
         ELSE Respond("/api/feature-importance", <<>>, 200, "json", NoError, <<>>)
    /\ UNCHANGED handlerFrame

\* driver_code.upper(), the value the Driver column is compared with
LookupKey(requested) == upper(requested)

\* GET /driver/<driver_code>
driver_detail(driver_code) ==
    /\ webPc = "serving"
    /\ response' =
         IF model_data = NoneValue
         THEN Respond("/driver", driver_code, 200, "error.html",
                      ModelDataNotFound, <<>>)
         ELSE LET driver_data == SelectDriver(model_data.rows, LookupKey(driver_code))
              IN IF driver_data = <<>>
                 THEN Respond("/driver", driver_code, 200, "error.html",
                              [msg |-> "Driver not found in predictions.",
                               arg |-> driver_code], <<>>)
                 ELSE Respond("/driver", driver_code, 200, "driver_detail.html",
                              NoError, <<driver_data[1]>>)
    /\ model_data' =
         IF model_data = NoneValue
         THEN model_data
         ELSE Indexed(model_data, SelectDriver(model_data.rows, LookupKey(driver_code)))
    /\ UNCHANGED requestFrame

\* GET /about
about ==
    /\ webPc = "serving"
    /\ response' = Respond("/about", <<>>, 200, "about.html", NoError, <<>>)
    /\ UNCHANGED handlerFrame

-----------------------------------------------------------------------------
(* Initial states *)

\* the output directory before the run: empty, or left by an earlier run
PriorDirs == {[f \in FileNames |-> NoFile], [f \in FileNames |-> PriorFile]}

\* generator states other code may have left behind
LeftoverStates == {3, 7}

\* year lists a direct caller may pass
CallYears == {2020, 2021, 2022}
YearLists == SeqsUpTo(CallYears, MaxYears)

\* collectors whose years are a parameter
TakesYears == {"collect_driver_standings", "collect_constructor_standings",
               "collect_season_schedules", "collect_weather_data"}

WebIdle ==
    /\ launch = "app"
    /\ artifacts = [a \in {} |-> "ok"]
    /\ predictionsCsv = <<>>
    /\ webPc = "off"
    /\ exitCode = 0
    /\ model_data = NoneValue
    /\ response = NoResponse

InitCollect(e, ks, dir) ==
    /\ entry = e
    /\ phase = "fetch"
    /\ keys = ks
    /\ i = 1
    /\ acc = <<>>
    /\ data = NoneValue
    /\ lastOutcome = None
    /\ requestLog = <<>>
    /\ ret = NoneValue
    /\ report = None
    /\ files = dir
    /\ writes = [f \in FileNames |-> 0]
    /\ dirAtStart = dir
    /\ lastWritten = NothingWritten
    /\ netRequests = 0
    /\ apiCalls = 0
    /\ paced = FALSE
    /\ raised = None
    /\ rng \in LeftoverStates
    /\ synthetic_data = <<>>
    /\ stepsCalled = <<>>
    /\ summary = NoSummary

\* python run_data_collection.py
Init ==
    /\ \E dir \in PriorDirs : InitCollect("main", <<>>, dir)
    /\ pc = "main"
    /\ use_fastf1 = TRUE
    /\ use_synthetic = TRUE
    /\ WebIdle

Next ==
    \/ main
    \/ collect_all_data
    \/ collect_singapore_gp_results
    \/ collect_driver_standings
    \/ collect_constructor_standings
    \/ collect_circuit_info
    \/ collect_season_schedules
    \/ collect_weather_data
    \/ collect_singapore_fastf1
    \/ validate_and_summarize

Spec == Init /\ [][Next]_vars

\* one collector called directly: collector.collect_x(years)
CallInit ==
    /\ \E c \in Collectors, dir \in PriorDirs :
         \E ks \in (IF c \in TakesYears THEN YearLists ELSE {}) \cup {DefaultKeys(c)} :
            /\ InitCollect(c, ks, dir)
            /\ pc = c
    /\ use_fastf1 \in (IF entry = "collect_weather_data" THEN BOOLEAN ELSE {TRUE})
    /\ use_synthetic \in (IF entry = "collect_weather_data" THEN BOOLEAN ELSE {TRUE})
    /\ WebIdle

CallNext ==
    \/ collect_singapore_gp_results
    \/ collect_driver_standings
    \/ collect_constructor_standings
    \/ collect_circuit_info
    \/ collect_season_schedules
    \/ collect_weather_data
    \/ collect_singapore_fastf1

CallSpec == CallInit /\ [][CallNext]_vars

-----------------------------------------------------------------------------
(* The dashboard *)

\* driver codes as they may stand in the predictions file or in a URL
DriverCodes == {<<"V", "E", "R">>, <<"v", "e", "r">>, <<"V", "e", "r">>,
                <<"H", "A", "M">>, <<"h", "a", "m">>}

TeamOf(code) == IF upper(code) = <<"V", "E", "R">> THEN "Red Bull" ELSE "Ferrari"

\* predictions files: up to MaxPredictions rows, best prediction first
PredictionTables ==
    {[k \in 1..Len(ds) |-> [Driver |-> ds[k], Team |-> TeamOf(ds[k]),
                            Predicted_Position |-> k]] :
        ds \in SeqsUpTo(DriverCodes, MaxPredictions)}

\* the tables a later run of the notebook leaves in the predictions file
RewrittenTables == {t \in PredictionTables : Len(t) = 1}

\* the notebook writes the files of features_dir while the dashboard is
\* up; app.py reads them in load_model_and_data only
notebook_writes_artifacts ==
    /\ webPc = "serving"
    /\ artifacts' = [f \in required_files |-> "ok"]
    /\ predictionsCsv' \in RewrittenTables \ {predictionsCsv}
    /\ UNCHANGED <<launch, webPc, exitCode, model_data, response, collectVars>>

\* python run_webapp.py from the repository root, or python app.py in webapp/
WebInit ==
    /\ launch \in {"run_webapp", "app"}
    /\ webPc = IF launch = "run_webapp" THEN "boot" ELSE "loading"
    /\ artifacts \in [required_files -> {"ok", "absent", "corrupt"}]
    /\ predictionsCsv \in (IF LoadsAll(artifacts) THEN PredictionTables ELSE {<<>>})
    /\ exitCode = 0
    /\ model_data = NoneValue
    /\ response = NoResponse
    /\ InitCollect("webapp", <<>>, [f \in FileNames |-> NoFile])
    /\ rng = 3
    /\ pc = "idle"
    /\ use_fastf1 = TRUE
    /\ use_synthetic = TRUE

WebNext ==
    \/ run_webapp
    \/ load_model_and_data
    \/ index
    \/ api_predictions
    \/ api_feature_importance
    \/ \E code \in DriverCodes : driver_detail(code)
    \/ notebook_writes_artifacts
    \/ about

WebSpec == WebInit /\ [][WebNext]_vars

-----------------------------------------------------------------------------
(* Properties *)

WeatherFile == OutputFile("collect_weather_data")
WeatherReturned == pc = "collect_weather_data" /\ phase = "returned"

\* the requested years for which get_weather_from_fastf1 returned a frame
ObservedYears ==
    {requestLog[k].key : k \in {j \in 1..Len(requestLog) : requestLog[j].ok}}

\* the number of observed frames in all_weather_data
ObservedCount == Cardinality({k \in 1..Len(requestLog) : requestLog[k].ok})

RequestedYears == {keys[k] : k \in 1..Len(keys)}

\* a row of a FastF1 frame: it carries session samples and no Data_Source
IsObservedRow(row) ==
    /\ row.Data_Source # "Synthetic"
    /\ row.Time # NaN
    /\ row.Date.day = "session.date"

IsSyntheticRow(row) == row.Data_Source = "Synthetic" /\ row.Time = NaN

NoYearTwice(table) ==
    \A j, k \in 1..Len(table) : j # k => table[j].Year # table[k].Year

LowCoverage == use_synthetic /\ 2 * ObservedCount < Len(keys)

\* C2: with synthesis enabled and fewer observed frames than half the
\* requested years, the synthetic frame appended before deduplication has one
\* record per entry of the year list, in order, and the returned table has
\* every requested year in exactly one row and no other year; for
\* [2020, 2021, 2022] with only 2020 observed that is three rows, 2020
\* observed, 2021 and 2022 synthetic.
C2_EveryYearOnce ==
    (pc = "collect_weather_data" /\ phase \in {"combine", "returned"}
        /\ LowCoverage) =>
        /\ Len(synthetic_data) = Len(keys)
        /\ \A k \in 1..Len(keys) :
              synthetic_data[k].Year = keys[k] /\ IsSyntheticRow(synthetic_data[k])
        /\ acc # <<>> /\ acc[Len(acc)] = synthetic_data
        /\ phase = "returned" =>
              /\ ret.kind = "DataFrame"
              /\ YearsOf(ret.rows) = RequestedYears
              /\ \A y \in RequestedYears : Cardinality(RowsOfYear(ret.rows, y)) = 1
              /\ (keys = <<2020, 2021, 2022>> /\ ObservedYears = {2020}) =>
                    /\ Len(ret.rows) = 3
                    /\ \A k \in 1..3 :
                          IF ret.rows[k].Year = 2020
                          THEN IsObservedRow(ret.rows[k])
                          ELSE IsSyntheticRow(ret.rows[k])

C2_Witness ==
    /\ WeatherReturned
    /\ use_synthetic
    /\ keys = <<2020, 2021, 2022>>
    /\ ObservedYears = {2020}
    /\ Len(ret.rows) = 3

\* C3: a table collect_weather_data returns (and writes) has no Year in two
\* of its rows, whatever frames were observed and whatever the year list.
C3_OneRowPerYear ==
    (WeatherReturned /\ ret.kind = "DataFrame") =>
        /\ NoYearTwice(ret.rows)
        /\ NoYearTwice(lastWritten.table)

C3_Witness ==
    /\ WeatherReturned
    /\ ret.kind = "DataFrame"
    /\ synthetic_data # <<>>
    /\ \E j \in 1..Len(acc) : Len(acc[j]) >= 2 /\ IsObservedRow(acc[j][1])
    /\ \E j, k \in 1..Len(keys) : j < k /\ keys[j] = keys[k]

Returned == pc \in Collectors /\ phase = "returned"

FetchFailed(e) == IF pc \in ErgastCollectors THEN e.ret = NoneValue ELSE ~e.ok

\* a fetch was made for every key, and none gave anything
EveryRequestFailed ==
    /\ Len(requestLog) = Len(keys)
    /\ \A k \in 1..Len(requestLog) : FetchFailed(requestLog[k])

NothingToCollect == keys = <<>> \/ EveryRequestFailed

Untouched == files = dirAtStart /\ \A f \in FileNames : writes[f] = 0

\* C4 as stated: a collector called over an empty key range, or one on which
\* every request fails, returns None and leaves the output directory as it was.
C4_AsStated ==
    (Returned /\ NothingToCollect) => (ret = NoneValue /\ Untouched)

SyntheticFallback ==
    pc = "collect_weather_data" /\ use_synthetic /\ keys # <<>>

\* C4 amended: the same, except for the weather collector called with
\* synthesis enabled over a non-empty year list on which every FastF1 fetch
\* fails: it writes its file once, with one synthetic record per requested
\* year, returns that table and leaves every other file as it was.
C4_NothingCollectedNoWrite ==
    (Returned /\ NothingToCollect) =>
        IF SyntheticFallback
        THEN /\ ret.kind = "DataFrame"
             /\ YearsOf(ret.rows) = RequestedYears
             /\ NoYearTwice(ret.rows)
             /\ \A k \in 1..Len(ret.rows) : IsSyntheticRow(ret.rows[k])
             /\ files = [dirAtStart EXCEPT ![WeatherFile] = "collect_weather_data"]
             /\ writes = [f \in FileNames |-> IF f = WeatherFile THEN 1 ELSE 0]
        ELSE ret = NoneValue /\ Untouched

C4_Witness ==
    /\ Returned
    /\ pc = "collect_driver_standings"
    /\ Len(keys) >= 2
    /\ EveryRequestFailed
    /\ dirAtStart[OutputFile(pc)] = PriorFile
    /\ ret = NoneValue
    /\ files = dirAtStart

\* C5: every make_request call issues exactly one request, no failure of a
\* request (connection failure, timeout, HTTP error status) escapes as an
\* exception (a collector stops on an exception only after a request that
\* succeeded), and the call that met the failure returned None.
C5_OneRequestNoRaise ==
    /\ netRequests = apiCalls
    /\ raised \notin RequestExceptionClasses
    /\ pc = "aborted" => lastOutcome = "ok"
    /\ (entry \in ErgastCollectors /\ lastOutcome \in RequestFailures) =>
          /\ pc \in ErgastCollectors
          /\ data = NoneValue
          /\ requestLog[Len(requestLog)].ret = NoneValue

C5_Witness ==
    /\ pc \in ErgastCollectors
    /\ Len(requestLog) = 2
    /\ requestLog[1].ret.kind = "MRData"
    /\ lastOutcome = "HTTPError"
    /\ data = NoneValue
    /\ netRequests = 2

\* the step main is in
CurrentStep ==
    IF pc \in ErgastCollectors \cup {"collect_all_data"} THEN 1
    ELSE IF pc = "collect_weather_data" THEN 2
    ELSE IF pc = "collect_singapore_fastf1" THEN 3
    ELSE IF pc \in {"validate_and_summarize", "done"} THEN 4
    ELSE 0

\* C6: main calls its steps in the order Ergast collection, weather
\* collection, FastF1 results, validation; whatever the fetches do, no
\* exception escapes, the run is never stuck before its end, and at its end
\* all four steps have been called and the summary has been printed.
C6_FixedOrderToTheEnd ==
    /\ raised = None
    /\ pc # "aborted"
    /\ stepsCalled = SubSeq(MainOrder, 1, CurrentStep)
    /\ pc = "done" => summary.printed
    /\ pc # "done" => ENABLED Next

AnyArtifactBad == \E f \in required_files : artifacts[f] # "ok"

\* the response each route gives when the model data is unavailable
Unavailable(r) ==
    CASE r.route \in {"/", "/driver"} ->
            r.view = "error.html" /\ r.error = ModelDataNotFound
      [] r.route \in {"/api/predictions", "/api/feature-importance"} ->
            r.status = 500 /\ r.view = "json"
            /\ r.error = [msg |-> "Model data not found", arg |-> <<>>]
      [] r.route = "/about" ->
            r.status = 200 /\ r.view = "about.html" /\ r.error = NoError
      [] OTHER -> r = NoResponse

\* C7 as stated: with any start-up artifact absent or unloadable the process
\* still starts, and once serving it answers with the unavailable responses
\* and the about page.
C7_AsStated ==
    AnyArtifactBad =>
        /\ webPc # "exited"
        /\ webPc = "serving" => (model_data = NoneValue /\ Unavailable(response))

\* C7 amended: started as app.py, or through run_webapp.py with no required
\* file absent, the dashboard always comes up, and with any artifact absent or
\* unloadable it serves the unavailable responses and the about page; started
\* through run_webapp.py with a required file absent, the launcher exits with
\* status 1 and nothing is served.
C7_UnavailableOrRefused ==
    AnyArtifactBad =>
        /\ webPc = "serving" => (model_data = NoneValue /\ Unavailable(response))
        /\ webPc = "exited" =>
              /\ launch = "run_webapp"
              /\ ~check_requirements(artifacts)
              /\ exitCode = 1
              /\ response = NoResponse
        /\ (launch = "app" \/ check_requirements(artifacts)) =>
              /\ webPc # "exited"
              /\ webPc # "serving" => ENABLED WebNext

C7_Witness ==
    /\ AnyArtifactBad
    /\ launch = "run_webapp"
    /\ webPc = "serving"
    /\ response.route = "/api/predictions"
    /\ response.status = 500

\* the table has a row whose driver code is code, letter case aside
InTable(code) ==
    \E k \in 1..Len(model_data.rows) :
        upper(model_data.rows[k].Driver) = upper(code)

\* C8: the driver page matches the requested code against the predictions
\* table irrespective of letter case: a driver in the table is found whatever
\* the case of the request, and a code matching no row gets the error view.
C8_CaseInsensitiveLookup ==
    (webPc = "serving" /\ model_data # NoneValue /\ response.route = "/driver") =>
        IF InTable(response.arg)
        THEN /\ response.view = "driver_detail.html"
             /\ upper(response.payload[1].Driver) = upper(response.arg)
        ELSE response.view = "error.html"

\* C9: the synthetic record of a year is a function of the year alone: it is
\* the record any generator state yields for that year, so it is the same at
\* every position of the list, next to any other years, in every call.
C9_DeterministicPerYear ==
    (pc = "collect_weather_data" /\ synthetic_data # <<>>) =>
        /\ Len(synthetic_data) = Len(keys)
        /\ \A k \in 1..Len(keys) : \A g \in RngStates :
              synthetic_data[k] = SyntheticRecord(keys[k], g).record
        /\ \A j, k \in 1..Len(keys) :
              keys[j] = keys[k] => synthetic_data[j] = synthetic_data[k]

C9_Witness ==
    /\ pc = "collect_weather_data"
    /\ Len(synthetic_data) = 3
    /\ keys[1] = keys[3]
    /\ keys[1] # keys[2]
    /\ synthetic_data[1] = synthetic_data[3]
    /\ synthetic_data[1] # [synthetic_data[2] EXCEPT !.Year = keys[1],
                                                     !.Date.year = keys[1]]

\* C10: an Ergast collector that has accumulated no record, also when its
\* requests succeeded with empty lists, reports that nothing was collected,
\* returns None and writes no file.
C10_NoRecordsNoFile ==
    (pc \in ErgastCollectors /\ phase = "returned" /\ acc = <<>>) =>
        /\ report = "no_data"
        /\ ret = NoneValue
        /\ files = dirAtStart

\* C11: in a run of main every output file is handed to to_csv at most once,
\* by the one collector that owns it and only after that collector's fetches;
\* and at every point of the run, where it may be interrupted, each file is
\* either as the prior run left it or holds the whole table of this run.
C11_WrittenOnceWhole ==
    /\ \A c1, c2 \in Collectors : OutputFile(c1) = OutputFile(c2) => c1 = c2
    /\ \A c \in Collectors :
          /\ writes[OutputFile(c)] <= 1
          /\ writes[OutputFile(c)] = 0 => files[OutputFile(c)] \in {NoFile, PriorFile}
          /\ writes[OutputFile(c)] = 1 =>
                /\ files[OutputFile(c)] = c
                /\ pc = c => phase = "returned"

\* the entries (results, or races of a schedule) of one answer
EntriesOf(c, d) ==
    IF d.kind # "MRData" THEN <<>>
    ELSE IF c = "collect_singapore_gp_results"
         THEN Concat([k \in 1..Len(d.rows) |->
                        IF d.rows[k].hasResults THEN d.rows[k].Results ELSE <<>>])
         ELSE d.rows

\* the entries of all answers the running collector has had, in request order
AnsweredEntries ==
    Concat([k \in 1..Len(requestLog) |-> EntriesOf(pc, requestLog[k].ret)])

\* an attribute is None exactly when the entry lacks the key it is read from
Absent(value, present) == (value = None) <=> ~present

RowOfEntry(c, row, e) ==
    IF c = "collect_singapore_gp_results"
    THEN /\ row.Position = e.position
         /\ Absent(row.DriverNumber, "permanentNumber" \in e.optional)
         /\ Absent(row.Time, "Time" \in e.optional)
         /\ Absent(row.FastestLapRank, "FastestLap" \in e.optional)
         /\ Absent(row.FastestLapTime,
                   {"FastestLap", "FastestLap.Time"} \subseteq e.optional)
         /\ Absent(row.FastestLapAvgSpeed,
                   {"FastestLap", "FastestLap.AverageSpeed"} \subseteq e.optional)
    ELSE /\ row.Round = e.round
         /\ Absent(row.Time, "time" \in e.optional)

\* C12: in the results and the schedule collector the accumulated rows are, one
\* for one and in order, the entries of the answers received, whatever optional
\* keys an entry lacks; an attribute read from a missing optional key is None;
\* and the table written and returned is these rows.
C12_RowPerEntry ==
    (pc \in {"collect_singapore_gp_results", "collect_season_schedules"}) =>
        /\ Len(acc) = Len(AnsweredEntries)
        /\ \A k \in 1..Len(acc) : RowOfEntry(pc, acc[k], AnsweredEntries[k])
        /\ (phase = "returned" /\ acc # <<>>) =>
              /\ ret = DataFrame(acc)
              /\ lastWritten.table = acc

C12_Witness ==
    /\ pc = "collect_singapore_gp_results"
    /\ phase = "returned"
    /\ Len(ret.rows) >= 3
    /\ \E k \in 1..Len(ret.rows) :
          ret.rows[k].Time = None /\ ret.rows[k].DriverNumber = None
    /\ \E k \in 1..Len(ret.rows) :
          ret.rows[k].FastestLapRank # None /\ ret.rows[k].FastestLapTime = None
    /\ \E k \in 1..Len(ret.rows) : ret.rows[k].FastestLapTime # None

\* C13: once the FastF1 pass of collect_weather_data is over, the synthetic
\* frame holds a record for every requested year if use_synthetic is set and
\* the observed years are strictly fewer than half the requested ones (counted
\* as the code counts them, per entry of the year list), and otherwise holds
\* nothing: then no returned row is synthetic and exactly the observed years
\* are in the table, the others are absent.
C13_AllOrNothing ==
    (pc = "collect_weather_data" /\ phase \in {"combine", "writing", "returned"}) =>
        IF use_synthetic /\ 2 * ObservedCount < Len(keys)
        THEN /\ Len(synthetic_data) = Len(keys)
             /\ YearsOf(synthetic_data) = RequestedYears
        ELSE /\ synthetic_data = <<>>
             /\ phase = "returned" =>
                   /\ YearsOf(ret.rows) = ObservedYears
                   /\ \A k \in 1..Len(ret.rows) : IsObservedRow(ret.rows[k])
                   /\ \A y \in RequestedYears \ ObservedYears :
                         RowsOfYear(ret.rows, y) = {}

C13_Witness ==
    /\ WeatherReturned
    /\ use_synthetic
    /\ Len(keys) = 2
    /\ ObservedCount = 1
    /\ synthetic_data = <<>>
    /\ RequestedYears \ YearsOf(ret.rows) # {}

\* the answers to the running collector's requests that carried records
FlattenedSoFar ==
    Concat([k \in 1..Len(requestLog) |->
               Flatten(entry, requestLog[k].key, requestLog[k].ret)])

\* C14: an Ergast collector requests its keys one by one in key order, each
\* once; a failed request adds nothing and the loop goes on; the collector is
\* never stopped before its last key, it returns after as many requests as it
\* has keys, and what it has accumulated, and returns, is the flattened
\* records of the answered keys in key order.
C14_OncePerKeyInOrder ==
    (entry \in ErgastCollectors) =>
        /\ pc = entry
        /\ apiCalls = Len(requestLog)
        /\ Len(requestLog) = i - 1
        /\ Len(requestLog) <= Len(keys)
        /\ \A k \in 1..Len(requestLog) : requestLog[k].key = keys[k]
        /\ acc = FlattenedSoFar
        /\ phase = "returned" =>
              /\ Len(requestLog) = Len(keys)
              /\ ret.rows = FlattenedSoFar

\* C15: whenever make_request has returned, whatever the outcome of its
\* request, the fixed delay has been waited since that request; so the delay
\* lies between any two consecutive requests.
C15_DelayAfterEveryRequest ==
    netRequests > 0 => paced

\* C16: every record of the synthetic frame has its humidity within
\* [60, 95], its wind speed at most 25, and the condition that the thresholds
\* give for the precipitation and the humidity the record itself holds.
C16_ConditionOfOwnValues ==
    \A k \in 1..Len(synthetic_data) :
        LET row == synthetic_data[k] IN
        /\ row.Humidity_Percent >= 60000
        /\ row.Humidity_Percent <= 95000
        /\ row.Wind_Speed_kmh <= 25000
        /\ row.Weather_Condition =
              Condition(row.Precipitation_mm, row.Humidity_Percent)

\* C17: the snapshot model_data is assigned by load_model_and_data alone,
\* once, on the step that starts serving, and no request is answered before
\* it; from then on every step, that of any handler included, leaves the
\* snapshot and its predictions table as they are, whatever is written to the
\* artifact files meanwhile, and a snapshot that failed to load stays None
\* with every later response the unavailable one.
C17_SnapshotFixedOnceLoaded ==
    [][/\ webPc # "serving" => (model_data = NoneValue /\ response = NoResponse)
       /\ model_data' # model_data => (webPc = "loading" /\ webPc' = "serving")
       /\ webPc = "serving" =>
             /\ webPc' = "serving"
             /\ model_data' = model_data
             /\ model_data = NoneValue => Unavailable(response')]_vars

C17_Witness ==
    /\ webPc = "serving"
    /\ model_data # NoneValue
    /\ Len(model_data.rows) = 2
    /\ model_data.rows # predictionsCsv
    /\ response.route = "/driver"
    /\ response.view = "driver_detail.html"
    /\ response.payload[1] = model_data.rows[2]

\* a reachable state of the failed case: the load failed, the six files have
\* been written since, and a request is still refused
FailedLoadOutlivesArtifacts ==
    /\ webPc = "serving"
    /\ model_data = NoneValue
    /\ LoadsAll(artifacts)
    /\ predictionsCsv # <<>>
    /\ response.route = "/api/predictions"
    /\ response.status = 500

\* C18: once validate_and_summarize has been called the run goes on to its
\* end without an exception, whichever files of the directory cannot be read
\* and whichever key files are missing, and the directory is file for file
\* what it was at the call: the step only prints, a line for each file
\* found, read or not, and the key files that are missing.
C18_ValidationOnlyObserves ==
    (entry = "main" /\ Len(stepsCalled) = Len(MainOrder)) =>
        /\ pc \in {"validate_and_summarize", "done"}
        /\ raised = None
        /\ files = dirAtStart
        /\ pc = "validate_and_summarize" => ENABLED Next
        /\ (pc = "done" \/ phase = "returned") =>
              /\ summary.printed
              /\ summary.errors \cup summary.counted = Existing(files)
              /\ summary.missing = key_files \ Existing(files)

C18_Witness ==
    /\ entry = "main"
    /\ pc = "done"
    /\ summary.printed
    /\ summary.errors # {}
    /\ summary.counted # {}
    /\ summary.missing # {}
    /\ key_files \ summary.missing # {}
    /\ files = dirAtStart

====
